---- MODULE Spec2Model ----
(***************************************************************************)
(* A model of vue-importer.py: the configuration loader (Config), the      *)
(* circuit resolver (Emporia.do_logins_and_build_circuits), the usage      *)
(* cache (Emporia.get_usage_for_circuits_with_cache) and the gauge value   *)
(* providers (Emporia._build_gauge).                                       *)
(*                                                                         *)
(* Python dicts keep insertion order, and the code iterates them, so a     *)
(* dict is modelled as a sequence of <<key, value>> pairs with distinct    *)
(* keys.  Python objects shared by reference (Circuit) live in a heap and  *)
(* are named by their index in it.                                         *)
(***************************************************************************)
EXTENDS Integers, Sequences, FiniteSets, TLC

\* None, for the optional string fields.
None == "None"

\* No object, for the optional Circuit references (heap indices start at 1).
NoCircuit == 0

----
\* Python's dict, as a sequence of <<key, value>> pairs with distinct keys.

Range(s) == {s[i] : i \in 1..Len(s)}

Keys(d) == {d[i][1] : i \in 1..Len(d)}

Values(d) == [i \in 1..Len(d) |-> d[i][2]]

Has(d, k) == \E i \in 1..Len(d) : d[i][1] = k

Get(d, k) == d[CHOOSE i \in 1..Len(d) : d[i][1] = k][2]

\* d[k] = v : an existing key keeps its position and takes the new value.
Put(d, k, v) ==
    IF Has(d, k)
    THEN [i \in 1..Len(d) |-> IF d[i][1] = k THEN <<k, v>> ELSE d[i]]
    ELSE Append(d, <<k, v>>)

\* del d[k]
Del(d, k) == SelectSeq(d, LAMBDA p : p[1] # k)

RECURSIVE Update(_, _)
\* d.update(e)
Update(d, e) ==
    IF e = <<>> THEN d
    ELSE Update(Put(d, Head(e)[1], Head(e)[2]), Tail(e))

----
\* Config: the raw document is config_dict, as yaml.load returns it.  A
\* circuits/outlets section is absent, a list of names, or a dict from a
\* name to the circuit's own dict, which holds its own sections.

Absent == [kind |-> "absent"]

ConfigCircuit(name, display_name, label, is_outlet, remainder_name, child_circuits) ==
    [name |-> name, display_name |-> display_name, label |-> label,
     is_outlet |-> is_outlet, remainder_name |-> remainder_name,
     child_circuits |-> child_circuits]

ConfigLocation(name, circuits) == [name |-> name, circuits |-> circuits]

RECURSIVE ReadListNames(_, _, _)
\* The loop over a list section: one leaf ConfigCircuit per name.  The name
\* is neither looked up in all_names nor added to it.
ReadListNames(names, are_outlets, circuits) ==
    IF names = <<>> THEN circuits
    ELSE ReadListNames(
            Tail(names), are_outlets,
            Put(circuits, Head(names),
                ConfigCircuit(Head(names), Head(names), None, are_outlets,
                              None, <<>>)))

RECURSIVE ReadCircuitsFromConfigDict(_, _, _)
RECURSIVE ReadDictItems(_, _, _, _)

\* What reading a section gives: whether it raised, self.all_names, and the
\* circuits read.  st is such a record, or one without the circuits.
NothingRead(st) ==
    [raised |-> st.raised, all_names |-> st.all_names, circuits |-> <<>>]

\* if "circuits" in d: circuits.update(self._read_circuits_from_config_dict(...))
\* and the same for "outlets"; nothing is read once an exception is raised.
ReadSection(section, are_outlets, st) ==
    IF section.kind = "absent" \/ st.raised THEN NothingRead(st)
    ELSE ReadCircuitsFromConfigDict(section, are_outlets, st)

\* The two dict.update calls: the outlets o are merged into the circuits c.
MergeSections(c, o) ==
    [raised |-> o.raised, all_names |-> o.all_names,
     circuits |-> Update(c.circuits, o.circuits)]

\* The "outlets" section of a location or circuit dict, after its "circuits"
\* section gave c.
ReadOutlets(node, c) == MergeSections(c, ReadSection(node.outlets, TRUE, c))

\* The sections of one location or circuit dict, "circuits" first.
ReadSections(node, st) ==
    ReadOutlets(node, ReadSection(node.circuits, FALSE, st))

\* circuits[circuit_name] = Config.ConfigCircuit(...), the children read
\* being sub; the generated documents give no display_name, label or
\* remainder, so these take their defaults.
AddConfigCircuit(acc, circuit_name, are_outlets, sub) ==
    [raised |-> sub.raised, all_names |-> sub.all_names,
     circuits |->
        IF sub.raised THEN acc.circuits
        ELSE Put(acc.circuits, circuit_name,
                 ConfigCircuit(circuit_name, circuit_name, None, are_outlets,
                               None, sub.circuits))]

\* The loop over a dict section.  acc = [raised, all_names, circuits].
ReadDictItems(items, i, are_outlets, acc) ==
    IF i > Len(items) \/ acc.raised THEN acc
    ELSE IF items[i][1] \in acc.all_names
    THEN [acc EXCEPT !.raised = TRUE]
    ELSE ReadDictItems(
            items, i + 1, are_outlets,
            AddConfigCircuit(
               acc, items[i][1], are_outlets,
               ReadSections(items[i][2],
                            [raised |-> FALSE,
                             all_names |-> acc.all_names \cup {items[i][1]}])))

\* Config._read_circuits_from_config_dict, with the exception as a flag.
ReadCircuitsFromConfigDict(config_dict, are_outlets, st) ==
    IF config_dict.kind = "list"
    THEN [raised |-> st.raised, all_names |-> st.all_names,
          circuits |-> ReadListNames(config_dict.names, are_outlets, <<>>)]
    ELSE IF config_dict.kind = "dict"
    THEN ReadDictItems(config_dict.items, 1, are_outlets, NothingRead(st))
    ELSE NothingRead(st)

\* self.locations[location_name] = Config.ConfigLocation(...)
AddConfigLocation(acc, location_name, sub) ==
    [raised |-> sub.raised, all_names |-> sub.all_names,
     locations |->
        IF sub.raised THEN acc.locations
        ELSE Put(acc.locations, location_name,
                 ConfigLocation(location_name, sub.circuits))]

RECURSIVE ReadLocations(_, _, _)
\* The loop of Config.__init__ over config_dict["locations"].
\* acc = [raised, all_names, locations].
ReadLocations(locs, i, acc) ==
    IF i > Len(locs) \/ acc.raised THEN acc
    ELSE IF locs[i][1] \in acc.all_names
    THEN [acc EXCEPT !.raised = TRUE]
    ELSE ReadLocations(
            locs, i + 1,
            AddConfigLocation(
               acc, locs[i][1],
               ReadSections(locs[i][2],
                            [raised |-> FALSE,
                             all_names |-> acc.all_names \cup {locs[i][1]}])))

\* The Config object that the loop leaves, with the accounts property.
ConfigObject(raw, r) ==
    [raised |-> r.raised, locations |-> r.locations,
     all_names |-> r.all_names, accounts |-> raw.accounts]

\* Config.__init__: the Config object, or raised = TRUE when it raises.
ConfigInit(raw) ==
    ConfigObject(raw, ReadLocations(raw.locations, 1,
                                    [raised |-> FALSE, all_names |-> {},
                                     locations |-> <<>>]))

----
\* The inputs: every raw configuration document with at most MaxNodes names
\* in it (locations and circuits together) and dicts nested at most
\* MaxDepth deep below a location.

Names == {"a", "b"}

MaxNodes == 3

MaxDepth == 1

RECURSIVE SectionsOfSize(_, _)
RECURSIVE DictsOfSize(_, _)

\* The entries <<name, [circuits, outlets]>> holding n names in all.
EntriesOfSize(n, d) ==
    IF n < 1 THEN {}
    ELSE {<<nm, [circuits |-> co[1], outlets |-> co[2]]>> :
            nm \in Names,
            co \in UNION {SectionsOfSize(j, d) \X SectionsOfSize(n - 1 - j, d) :
                            j \in 0..(n - 1)}}

\* The dicts (sequences of entries with distinct keys) holding n names.
DictsOfSize(n, d) ==
    IF n = 0 THEN {<<>>}
    ELSE UNION {
           {<<er[1]>> \o er[2] :
              er \in {x \in EntriesOfSize(k, d) \X DictsOfSize(n - k, d) :
                        x[1][1] \notin Keys(x[2])}} :
           k \in 1..n}

\* The sections holding n names, with dicts nested at most d deep.
SectionsOfSize(n, d) ==
    IF n = 0 THEN {Absent}
    ELSE {[kind |-> "list", names |-> s] : s \in [1..n -> Names]}
         \cup (IF d > 0
               THEN {[kind |-> "dict", items |-> its] :
                       its \in DictsOfSize(n, d - 1)}
               ELSE {})

LocationDicts == UNION {DictsOfSize(n, MaxDepth) : n \in 0..MaxNodes}

----
\* Emporia: the resolver.  An optional dict (None or a dict) is a record.

NoneDict == [none |-> TRUE, d |-> <<>>]

Some(d) == [none |-> FALSE, d |-> d]

\* Python's truth value of an Optional[Dict]: None and {} are false.
Truthy(x) == ~x.none /\ x.d # <<>>

Location(name, circuits) == [name |-> name, circuits |-> circuits]

\* Circuit(...), with the attrs defaults of the fields not given.
Circuit(name, account_name, device_gid, channel_num, is_outlet) ==
    [name |-> name, account_name |-> account_name, device_gid |-> device_gid,
     channel_num |-> channel_num, is_outlet |-> is_outlet,
     child_circuits |-> <<>>, location |-> None,
     parent_circuit |-> NoCircuit, display_name |-> None, label |-> None,
     remainder_name |-> None]

\* The state of one call of do_logins_and_build_circuits is the record
\* st = [heap, locations, circuits_to_add, discovered, lookups]: the Circuit
\* objects, self.locations, the local circuits_to_add, and two histories:
\* the channels get_devices reported and the names the config walk looked up.

RECURSIVE AddChannels(_, _, _, _, _)
\* for channel in device.channels: circuits_to_add[channel.name] = Circuit(...)
AddChannels(st, account_name, device, channels, i) ==
    IF i > Len(channels) THEN st
    ELSE LET id == Len(st.heap) + 1
             c  == Circuit(channels[i].name, account_name, device.device_gid,
                           channels[i].channel_num, FALSE)
         IN  AddChannels(
                [st EXCEPT
                   !.heap = Append(@, c),
                   !.circuits_to_add = Put(@, channels[i].name, id),
                   !.discovered = Append(@, id)],
                account_name, device, channels, i + 1)

RECURSIVE AddDevices(_, _, _, _)
\* for device in account.get_devices(): ...
AddDevices(st, account_name, devices, i) ==
    IF i > Len(devices) THEN st
    ELSE LET device == devices[i]
             id     == Len(st.heap) + 1
         IN  IF Len(device.channels) = 1
             THEN AddDevices(
                     [st EXCEPT
                        !.heap = Append(@, Circuit(device.device_name,
                                                   account_name,
                                                   device.device_gid,
                                                   device.channels[1].channel_num,
                                                   device.outlet)),
                        !.circuits_to_add = Put(@, device.device_name, id),
                        !.discovered = Append(@, id)],
                     account_name, devices, i + 1)
             ELSE AddDevices(
                     AddChannels(st, account_name, device, device.channels, 1),
                     account_name, devices, i + 1)

RECURSIVE IndexByDevice(_, _, _)
\* {(circuit.device_gid, circuit.channel_num): circuit for circuit in ...}
IndexByDevice(heap, ids, acc) ==
    IF ids = <<>> THEN acc
    ELSE IndexByDevice(
            heap, Tail(ids),
            Put(acc, <<heap[Head(ids)].device_gid, heap[Head(ids)].channel_num>>,
                Head(ids)))

RECURSIVE IndexByName(_, _, _)
\* {circuit.name: circuit for circuit in circuits_to_add.values()}
IndexByName(heap, ids, acc) ==
    IF ids = <<>> THEN acc
    ELSE IndexByName(heap, Tail(ids), Put(acc, heap[Head(ids)].name, Head(ids)))

\* circuit_container[name] = circuit, the container being the circuits of a
\* Location (parent = NoCircuit) or the child_circuits of the parent.
ContainerPut(st, location, parent, name, id) ==
    IF parent = NoCircuit
    THEN [st EXCEPT !.locations =
             Put(@, location,
                 Location(location, Put(Get(@, location).circuits, name, id)))]
    ELSE [st EXCEPT !.heap[parent].child_circuits = Put(@, name, id)]

\* The body of the matched branch before the recursion: the circuit is
\* put in the container, takes the config's fields and leaves
\* circuits_to_add.
BindCircuit(st, config_circuit, this, location, parent) ==
    [ContainerPut(st, location, parent, config_circuit.name, this) EXCEPT
        !.heap[this].display_name =
            IF config_circuit.display_name = None
            THEN config_circuit.name
            ELSE config_circuit.display_name,
        !.heap[this].label = config_circuit.label,
        !.heap[this].remainder_name = config_circuit.remainder_name,
        !.heap[this].location = location,
        !.heap[this].parent_circuit = parent,
        !.circuits_to_add = Del(@, config_circuit.name)]

RECURSIVE PopulateCircuitsRecursive(_, _, _, _, _)
RECURSIVE MatchCircuit(_, _, _, _)

\* One round of the loop of _populate_circuits_recursive: a config circuit
\* found in circuits_to_add is bound and its children are walked with it
\* as their parent; one not found is skipped with a warning.
MatchCircuit(st, config_circuit, location, parent) ==
    IF Has(st.circuits_to_add, config_circuit.name)
    THEN PopulateCircuitsRecursive(
            BindCircuit(st, config_circuit,
                        Get(st.circuits_to_add, config_circuit.name),
                        location, parent),
            Values(config_circuit.child_circuits), 1, location,
            Get(st.circuits_to_add, config_circuit.name))
    ELSE st

\* Emporia._populate_circuits_recursive over config_circuits[i..].
PopulateCircuitsRecursive(st, config_circuits, i, location, parent) ==
    IF i > Len(config_circuits) THEN st
    ELSE PopulateCircuitsRecursive(
            MatchCircuit([st EXCEPT !.lookups =
                             Append(@, config_circuits[i].name)],
                         config_circuits[i], location, parent),
            config_circuits, i + 1, location, parent)

RECURSIVE PopulateLocations(_, _, _)
\* for config_location in self.config.locations.values(): ...
PopulateLocations(st, config_locations, i) ==
    IF i > Len(config_locations) THEN st
    ELSE PopulateLocations(
            PopulateCircuitsRecursive(st, Values(config_locations[i].circuits),
                                      1, config_locations[i].name, NoCircuit),
            config_locations, i + 1)

\* self.config.accounts[account_name].get("location", account_name)
DefaultLocation(config_accounts, account_name) ==
    IF Get(config_accounts, account_name).location = None
    THEN account_name
    ELSE Get(config_accounts, account_name).location

\* if location not in self.locations: self.locations[location] = Location(...)
EnsureLocation(st, location) ==
    IF Has(st.locations, location) THEN st
    ELSE [st EXCEPT !.locations = Put(@, location, Location(location, <<>>))]

\* self.locations[location].circuits[circuit.name] = circuit
\* circuit.location = location
PlaceCircuit(st, id, location) ==
    [ContainerPut(EnsureLocation(st, location), location, NoCircuit,
                  st.heap[id].name, id)
        EXCEPT !.heap[id].location = location]

RECURSIVE PlaceRemaining(_, _, _)
\* Put remaining (unconfigured) circuits in default locations.
PlaceRemaining(st, config_accounts, ids) ==
    IF ids = <<>> THEN st
    ELSE PlaceRemaining(
            PlaceCircuit(st, Head(ids),
                         DefaultLocation(config_accounts,
                                         st.heap[Head(ids)].account_name)),
            config_accounts, Tail(ids))

\* The loop over what the config walk left in circuits_to_add.
PlaceAllRemaining(st, config_accounts) ==
    PlaceRemaining(st, config_accounts, Values(st.circuits_to_add))

\* self.locations = {name: Location(name=name, circuits=dict()) for name in ...}
EmptyLocations(config_locations) ==
    [i \in 1..Len(config_locations) |->
        <<config_locations[i][1], Location(config_locations[i][1], <<>>)>>]

\* What the call leaves in the Emporia object: the two indices, made of
\* circuits_to_add before the walk (st), and the tree after it (done).
BuiltCircuits(st, done) ==
    [heap |-> done.heap, locations |-> done.locations,
     circuits_by_name |->
        IndexByName(st.heap, Values(st.circuits_to_add), <<>>),
     circuits_by_device |->
        IndexByDevice(st.heap, Values(st.circuits_to_add), <<>>),
     lookups |-> done.lookups, discovered |-> done.discovered]

\* The part of do_logins_and_build_circuits after the loop over the
\* accounts: the two indices, the config walk, the default locations.
BuildCircuits(st, config) ==
    BuiltCircuits(
        st,
        PlaceAllRemaining(PopulateLocations(st, Values(config.locations), 1),
                          config.accounts))

----
\* The inputs of the resolver: the accounts of the configuration and the
\* devices the service reports.

\* config_dict["accounts"]: one account without a default location, or that
\* one and a second whose default location is a configured name.
AccountDicts ==
    {<< <<"x", [location |-> None]>> >>,
     << <<"x", [location |-> None]>>, <<"y", [location |-> "a"]>> >>}

RawConfigs ==
    {[locations |-> l, accounts |-> a] : l \in LocationDicts, a \in AccountDicts}

\* The channels the service reports over all accounts, at most.
MaxChannels == 2

\* A device with k channels and the given device_gid: a smart plug (one
\* channel, named after the device) or a monitor with k named channels.
DevicesOfSize(k, gid) ==
    IF k = 1
    THEN {[device_gid |-> gid, device_name |-> nm, outlet |-> TRUE,
           channels |-> <<[channel_num |-> 1, name |-> nm]>>] : nm \in Names}
    ELSE {[device_gid |-> gid, device_name |-> "monitor", outlet |-> FALSE,
           channels |-> [i \in 1..k |-> [channel_num |-> i, name |-> f[i]]]] :
            f \in [1..k -> Names]}

RECURSIVE DeviceListsOfSize(_, _)
\* The device lists with n channels in all, device_gids counted from gid.
DeviceListsOfSize(n, gid) ==
    IF n = 0 THEN {<<>>}
    ELSE UNION {
           {<<dr[1]>> \o dr[2] :
              dr \in DevicesOfSize(k, gid) \X DeviceListsOfSize(n - k, gid + 1)} :
           k \in 1..n}

DeviceLists(n, gid) == UNION {DeviceListsOfSize(k, gid) : k \in 0..n}

----
VARIABLES
    config_dict,        \* the raw configuration document
    config,             \* the Config object
    pc,                 \* where the main program is
    accounts,           \* Emporia.accounts
    locations,          \* Emporia.locations
    circuits_by_name,   \* Emporia.circuits_by_name
    circuits_by_device, \* Emporia.circuits_by_device
    heap,               \* the Circuit objects
    call,               \* the locals of the running do_logins_and_build_circuits
    discovered,         \* history: the Circuits made for the reported channels
    lookups,            \* history: the names the config walk looked up
    last_call,          \* how the last do_logins_and_build_circuits ended
    calls,              \* history: the calls of do_logins_and_build_circuits
    logins,             \* history: the calls of login()
    cached_usage,       \* Emporia.cached_usage
    cache_lock,         \* Emporia.cache_lock: its holder, or 0
    clock,              \* datetime.utcnow(), in seconds
    reader,             \* the threads reading gauges
    ret,                \* the gauge read that is returning to its caller
    reported            \* what the service answered to the refresh that
                        \* stored cached_usage

configVars == <<config_dict, config>>

emporiaVars ==
    <<accounts, locations, circuits_by_name, circuits_by_device, heap>>

resolveVars == <<pc, call, discovered, lookups, last_call, calls, logins>>

cacheVars == <<cached_usage, cache_lock, clock, reader, ret, reported>>

vars == <<configVars, emporiaVars, resolveVars, cacheVars>>

\* The calls of do_logins_and_build_circuits one run makes, at most.
MaxCalls == 2

NoCall == [circuits_to_add |-> <<>>, acct_i |-> 0]

NoCache == [none |-> TRUE, circuit_usage |-> <<>>, fetch_time |-> 0]

\* The threads that read gauges.
Readers == {1, 2}

\* A thread that reads no gauge.  Besides its place in the code and the
\* locals of get_usage_for_circuits, a thread records whether it came to
\* the lock while a refresh held it (behind), the snapshot that refresh
\* then stored (awaited), whether that refresh raised and whether a later
\* one has stored a snapshot since (failed: "no", "raised", "superseded"),
\* and the answers its own refresh got (responses).
Idle ==
    [pc |-> "idle", behind |-> FALSE, awaited |-> NoCache,
     failed |-> "no", acct_i |-> 0,
     circuit_usage |-> <<>>, responses |-> <<>>]

NoGauge == [fn |-> "none", circuit |-> NoCircuit]

NoRet ==
    [reader |-> 0, how |-> "none", usage |-> <<>>, gauge |-> NoGauge,
     result |-> [ok |-> FALSE, value |-> 0]]

\* Emporia.__init__
EmporiaInit ==
    /\ accounts = NoneDict
    /\ locations = NoneDict
    /\ circuits_by_name = <<>>
    /\ circuits_by_device = <<>>
    /\ cached_usage = NoCache
    /\ cache_lock = 0

\* The cache is not read while the circuits are resolved.
CacheIdle ==
    /\ clock = 0
    /\ reader = [t \in Readers |-> Idle]
    /\ ret = NoRet
    /\ reported = <<>>

InitResolve ==
    /\ config_dict \in RawConfigs
    /\ config = [raised |-> FALSE, locations |-> <<>>, all_names |-> {},
                 accounts |-> <<>>]
    /\ pc = "main"
    /\ EmporiaInit
    /\ heap = <<>>
    /\ call = NoCall
    /\ discovered = <<>>
    /\ lookups = <<>>
    /\ last_call = "none"
    /\ calls = 0
    /\ logins = 0
    /\ CacheIdle

\* config = Config(args.config); emporia = Emporia(config)
MainConfig ==
    /\ pc = "main"
    /\ config' = ConfigInit(config_dict)
    /\ pc' = IF config'.raised THEN "config_failed" ELSE "ready"
    /\ UNCHANGED <<config_dict, emporiaVars, call, discovered, lookups,
                   last_call, calls, logins, cacheVars>>

\* A guard that takes an emptied registry for no registry.
NeverLoggedIn == FALSE

\* if self.accounts: return
AlreadyLoggedIn == Truthy(accounts)

\* do_logins_and_build_circuits, to its first login: the guard, then the
\* empty registries.
DoLoginsBegin ==
    /\ pc = "ready"
    /\ calls < MaxCalls
    /\ calls' = calls + 1
    /\ IF AlreadyLoggedIn
       THEN /\ last_call' = "returned"
            /\ UNCHANGED <<pc, accounts, locations, call>>
       ELSE /\ accounts' = Some(<<>>)
            /\ locations' = Some(EmptyLocations(config.locations))
            /\ call' = [circuits_to_add |-> <<>>, acct_i |-> 1]
            /\ pc' = "login"
            /\ last_call' = "running"
    /\ UNCHANGED <<configVars, circuits_by_name, circuits_by_device, heap,
                   discovered, lookups, logins, cacheVars>>

\* One round of the loop over the accounts: the client is registered, then
\* login() returns or raises, then get_devices() reports the devices.
DoLoginsAccount ==
    /\ pc = "login"
    /\ call.acct_i <= Len(config.accounts)
    /\ LET account_name == config.accounts[call.acct_i][1] IN
       \E ok \in BOOLEAN :
          /\ accounts' = Some(Put(accounts.d, account_name,
                                  [logged_in |-> ok]))
          /\ logins' = logins + 1
          /\ IF ok
             THEN \E devices \in DeviceLists(MaxChannels - Len(discovered),
                                             Len(heap) + 1) :
                    \E st \in {AddDevices(
                                 [heap |-> heap, locations |-> locations.d,
                                  circuits_to_add |-> call.circuits_to_add,
                                  discovered |-> discovered,
                                  lookups |-> lookups],
                                 account_name, devices, 1)} :
                        /\ heap' = st.heap
                        /\ discovered' = st.discovered
                        /\ call' = [circuits_to_add |-> st.circuits_to_add,
                                    acct_i |-> call.acct_i + 1]
                        /\ UNCHANGED <<pc, last_call>>
             ELSE /\ pc' = "ready"
                  /\ last_call' = "raised"
                  /\ call' = NoCall
                  /\ UNCHANGED <<heap, discovered>>
    /\ UNCHANGED <<configVars, locations, circuits_by_name,
                   circuits_by_device, lookups, calls, cacheVars>>

\* The rest of do_logins_and_build_circuits, after the last account.
DoLoginsBuild ==
    /\ pc = "login"
    /\ call.acct_i > Len(config.accounts)
    /\ \E e \in {BuildCircuits(
                     [heap |-> heap, locations |-> locations.d,
                      circuits_to_add |-> call.circuits_to_add,
                      discovered |-> discovered, lookups |-> lookups],
                     config)} :
           /\ heap' = e.heap
           /\ locations' = Some(e.locations)
           /\ circuits_by_name' = e.circuits_by_name
           /\ circuits_by_device' = e.circuits_by_device
           /\ lookups' = e.lookups
    /\ pc' = "ready"
    /\ last_call' = "completed"
    /\ call' = NoCall
    /\ UNCHANGED <<configVars, accounts, discovered, calls, logins, cacheVars>>

NextResolve ==
    \/ MainConfig
    \/ DoLoginsBegin
    \/ DoLoginsAccount
    \/ DoLoginsBuild

SpecResolve == InitResolve /\ [][NextResolve]_vars

----
\* Emporia: the usage cache and the gauges.

\* cache_ttl = timedelta(seconds=15)
CacheTtl == 15

\* The last second the clock of a run reaches.
MaxClock == 16

\* channel.usage is None
NoUsage == -1

\* The document, the devices and the meter readings the cache is read
\* against: a monitor of account x on main, sub and leaf, a plug of account
\* y, and main > {sub > {leaf}, plug} configured in one location.
ServedDoc ==
    [locations |->
        << <<"home",
             [circuits |->
                 [kind |-> "dict",
                  items |->
                     << <<"main",
                          [circuits |->
                              [kind |-> "dict",
                               items |->
                                  << <<"sub",
                                       [circuits |->
                                           [kind |-> "list",
                                            names |-> <<"leaf">>],
                                        outlets |-> Absent]>> >>],
                           outlets |->
                              [kind |-> "list", names |-> <<"plug">>]]>> >>],
              outlets |-> Absent]>> >>,
     accounts |-> << <<"x", [location |-> None]>>,
                     <<"y", [location |-> "home"]>> >>]

ServedDevices ==
    << <<"x", <<[device_gid |-> 1, device_name |-> "monitor",
                 outlet |-> FALSE,
                 channels |-> <<[channel_num |-> 1, name |-> "main"],
                                [channel_num |-> 2, name |-> "sub"],
                                [channel_num |-> 3, name |-> "leaf"]>>]>> >>,
       <<"y", <<[device_gid |-> 2, device_name |-> "plug", outlet |-> TRUE,
                 channels |-> <<[channel_num |-> 1, name |-> "plug"]>>]>> >> >>

\* What each channel of the service measures, in the unit of channel.usage.
Meter ==
    << << <<1, 1>>, 10>>, << <<1, 2>>, 3>>, << <<1, 3>>, 1>>,
       << <<2, 1>>, 2>> >>

RECURSIVE LoginAll(_, _, _)
\* The loop over the accounts, every login() returning.
LoginAll(st, devices_of, i) ==
    IF i > Len(devices_of) THEN st
    ELSE LoginAll(AddDevices(st, devices_of[i][1], devices_of[i][2], 1),
                  devices_of, i + 1)

\* The Emporia object after do_logins_and_build_circuits for config, the
\* service reporting devices_of.
Resolved(cfg, devices_of) ==
    BuildCircuits(
        LoginAll([heap |-> <<>>,
                  locations |-> EmptyLocations(cfg.locations),
                  circuits_to_add |-> <<>>, discovered |-> <<>>,
                  lookups |-> <<>>],
                 devices_of, 1),
        cfg)

\* The answers of get_device_list_usage for the devices asked for: every
\* channel with its reading and the device's balance channel besides; every
\* channel switched off; every device without its last channel.
ChannelsOf(gid) ==
    SelectSeq([i \in 1..Len(Meter) |-> Meter[i][1]], LAMBDA k : k[1] = gid)

DeviceUsage(gid, kind) ==
    LET chans == ChannelsOf(gid) IN
    IF kind = "on"
    THEN [i \in 1..Len(chans) + 1 |->
            IF i <= Len(chans)
            THEN [channel_num |-> chans[i][2], usage |-> Get(Meter, chans[i])]
            ELSE [channel_num |-> 0, usage |-> 1]]
    ELSE IF kind = "off"
    THEN [i \in 1..Len(chans) |->
            [channel_num |-> chans[i][2], usage |-> NoUsage]]
    ELSE [i \in 1..Len(chans) - 1 |->
            [channel_num |-> chans[i][2], usage |-> Get(Meter, chans[i])]]

RECURSIVE Distinct(_, _)
\* The sequence without its repetitions.
Distinct(s, acc) ==
    IF s = <<>> THEN acc
    ELSE Distinct(Tail(s),
                  IF Head(s) \in Range(acc) THEN acc ELSE Append(acc, Head(s)))

ResponseKinds == {"on", "off", "short"}

\* device_usage_dict, as pairs <<device_gid, channels>>.
Response(device_gids, kind) ==
    LET gids == Distinct(device_gids, <<>>) IN
    [i \in 1..Len(gids) |-> <<gids[i], DeviceUsage(gids[i], kind)>>]

\* [circuit.device_gid for circuit in self.circuits_by_name.values()
\*  if circuit.account_name == account_name]
DeviceGids(account_name) ==
    LET ids == SelectSeq(Values(circuits_by_name),
                         LAMBDA id : heap[id].account_name = account_name)
    IN  [i \in 1..Len(ids) |-> heap[ids[i]].device_gid]

\* A conversion to watt-hours per hour, without the kilo.
WattsNotScaled(usage) == usage * 3600

\* channel.usage * 3600 * 1000
Watts(usage) == usage * 3600 * 1000

RECURSIVE JoinChannels(_, _, _, _)
\* for channel in device_usage.channels.values(): ...
JoinChannels(circuit_usage, device_gid, channels, i) ==
    IF i > Len(channels) THEN circuit_usage
    ELSE LET key == <<device_gid, channels[i].channel_num>> IN
         JoinChannels(
            IF Has(circuits_by_device, key)
            THEN Put(circuit_usage,
                     heap[Get(circuits_by_device, key)].name,
                     IF channels[i].usage # NoUsage /\ channels[i].usage # 0
                     THEN Watts(channels[i].usage)
                     ELSE 0)
            ELSE circuit_usage,
            device_gid, channels, i + 1)

RECURSIVE JoinResponse(_, _, _)
\* for device_gid, device_usage in device_usage_dict.items(): ...
JoinResponse(circuit_usage, device_usage_dict, i) ==
    IF i > Len(device_usage_dict) THEN circuit_usage
    ELSE JoinResponse(
            JoinChannels(circuit_usage, device_usage_dict[i][1],
                         device_usage_dict[i][2], 1),
            device_usage_dict, i + 1)

\* The value providers build_gauges registers: get_usage for every circuit
\* of circuits_by_name, get_remainder for those with child circuits.
Gauges ==
    {[fn |-> "get_usage", circuit |-> id] : id \in Range(Values(circuits_by_name))}
    \cup {[fn |-> "get_remainder", circuit |-> id] :
            id \in {c \in Range(Values(circuits_by_name)) :
                      Len(heap[c].child_circuits) > 0}}

Raised == [ok |-> FALSE, value |-> 0]

Returned(v) == [ok |-> TRUE, value |-> v]

\* get_usage, after its cache read: the assertion, then usage[circuit.name].
GetUsage(usage, id) ==
    IF Has(usage, heap[id].name) THEN Returned(Get(usage, heap[id].name))
    ELSE Raised

RECURSIVE SubtractDescendants(_, _, _, _)
\* A remainder that also subtracts what is below the children.
SubtractDescendants(usage, usage_amount, children, i) ==
    IF i > Len(children) THEN Returned(usage_amount)
    ELSE IF ~Has(usage, heap[children[i]].name) THEN Raised
    ELSE SubtractDescendants(
            usage, usage_amount - Get(usage, heap[children[i]].name),
            SubSeq(children, i + 1, Len(children))
                \o Values(heap[children[i]].child_circuits),
            1)

RECURSIVE SubtractChildren(_, _, _, _)
\* for child in circuit.child_circuits.values(): usage_amount -= usage[child.name]
SubtractChildren(usage, usage_amount, children, i) ==
    IF i > Len(children) THEN Returned(usage_amount)
    ELSE IF ~Has(usage, heap[children[i]].name) THEN Raised
    ELSE SubtractChildren(usage,
                          usage_amount - Get(usage, heap[children[i]].name),
                          children, i + 1)

\* get_remainder, after its cache read.
GetRemainder(usage, id) ==
    IF ~Has(usage, heap[id].name) THEN Raised
    ELSE SubtractChildren(usage, Get(usage, heap[id].name),
                          Values(heap[id].child_circuits), 1)

GaugeValue(gauge, usage) ==
    IF gauge.fn = "get_usage" THEN GetUsage(usage, gauge.circuit)
    ELSE GetRemainder(usage, gauge.circuit)

----
\* The gauge reads.  Which gauge a reader serves has no influence on its
\* cache read, so it is drawn when the read returns.  A read returns in two
\* steps, neither touching the cache: ret holds what it returns, then the
\* caller takes it; no other step comes between the two.

\* The state after construction, login and build_gauges on the served
\* document and devices, as the main program leaves it to the HTTP server.
Init ==
    /\ config_dict = ServedDoc
    /\ \E cfg \in {ConfigInit(ServedDoc)} :
          /\ config = cfg
          /\ \E served \in {Resolved(cfg, ServedDevices)} :
                /\ locations = Some(served.locations)
                /\ circuits_by_name = served.circuits_by_name
                /\ circuits_by_device = served.circuits_by_device
                /\ heap = served.heap
                /\ discovered = served.discovered
                /\ lookups = served.lookups
    /\ pc = "serving"
    /\ accounts = Some([i \in 1..Len(ServedDevices) |->
                          <<ServedDevices[i][1], [logged_in |-> TRUE]>>])
    /\ call = NoCall
    /\ last_call = "completed"
    /\ calls = 1
    /\ logins = Len(ServedDevices)
    /\ cached_usage = NoCache
    /\ cache_lock = 0
    /\ CacheIdle

\* What no step of a gauge read changes.
builtVars == <<configVars, emporiaVars, resolveVars>>

\* A freshness test that takes a snapshot of just cache_ttl for fresh.
FreshOneSecondLonger(now) ==
    /\ ~cached_usage.none
    /\ now - cached_usage.fetch_time <= CacheTtl

\* self.cached_usage and now - self.cached_usage.fetch_time < cache_ttl
Fresh(now) ==
    /\ ~cached_usage.none
    /\ now - cached_usage.fetch_time < CacheTtl

\* A lock that any thread may take at any time.
LockNeverHeld == TRUE

\* with self.cache_lock: the lock can be acquired.
LockFree == cache_lock = 0

\* The collector calls a gauge's value provider on thread t, which calls
\* get_usage_for_circuits_with_cache and comes to its lock.
CallGauge(t) ==
    /\ ret = NoRet
    /\ reader[t].pc = "idle"
    /\ reader' = [reader EXCEPT
                    ![t] = [Idle EXCEPT !.pc = "waiting",
                                        !.behind = (cache_lock # 0)]]
    /\ UNCHANGED <<cached_usage, cache_lock, clock, ret, reported, builtVars>>

\* The lock is taken and the snapshot is fresh: it is returned as it is.
CacheHit(t) ==
    /\ ret = NoRet
    /\ reader[t].pc = "waiting"
    /\ LockFree
    /\ Fresh(clock)
    /\ \E g \in Gauges :
          ret' = [reader |-> t, how |-> "hit",
                  usage |-> cached_usage.circuit_usage, gauge |-> g,
                  result |-> GaugeValue(g, cached_usage.circuit_usage)]
    /\ reader' = [reader EXCEPT ![t] = [Idle EXCEPT !.awaited = reader[t].awaited]]
    /\ UNCHANGED <<cached_usage, cache_lock, clock, reported, builtVars>>

\* The lock is taken and there is no fresh snapshot: get_usage_for_circuits
\* is called, and asserts that there are accounts.
CacheMiss(t) ==
    /\ ret = NoRet
    /\ reader[t].pc = "waiting"
    /\ LockFree
    /\ ~Fresh(clock)
    /\ IF Truthy(accounts)
       THEN /\ cache_lock' = t
            /\ reader' = [reader EXCEPT ![t] = [Idle EXCEPT !.pc = "refreshing",
                                                            !.acct_i = 1]]
            /\ ret' = ret
       ELSE /\ cache_lock' = cache_lock
            /\ reader' = [reader EXCEPT ![t] = Idle]
            /\ ret' = [NoRet EXCEPT !.reader = t, !.how = "raised"]
    /\ UNCHANGED <<cached_usage, clock, reported, builtVars>>

\* One round of the loop over the accounts, the service answering resp.
Queried(r, resp) ==
    [r EXCEPT !.circuit_usage = JoinResponse(@, resp, 1),
              !.responses = @ \o resp,
              !.acct_i = @ + 1]

\* One round of the loop over the accounts: get_device_list_usage answers
\* and the answer is joined to the circuits.
QueryUsage(t) ==
    /\ ret = NoRet
    /\ reader[t].pc = "refreshing"
    /\ reader[t].acct_i <= Len(accounts.d)
    /\ \E kind \in ResponseKinds :
          reader' = [reader EXCEPT
             ![t] = Queried(@, Response(
                                  DeviceGids(accounts.d[reader[t].acct_i][1]),
                                  kind))]
    /\ UNCHANGED <<cached_usage, cache_lock, clock, ret, reported, builtVars>>

\* The threads after thread t's refresh ended: t reads no gauge; those that
\* came to the lock during the refresh hold what it stored, if it did, and
\* else that it raised; and for those that waited behind a refresh that
\* raised, a snapshot stored now supersedes that failure.
AfterRefresh(t, stored) ==
    [u \in Readers |->
        IF u = t THEN Idle
        ELSE IF reader[u].pc = "waiting" /\ reader[u].behind
        THEN [reader[u] EXCEPT
                 !.behind = FALSE,
                 !.awaited = stored,
                 !.failed = IF stored.none THEN "raised" ELSE @]
        ELSE IF reader[u].pc = "waiting" /\ reader[u].failed = "raised"
                /\ ~stored.none
        THEN [reader[u] EXCEPT !.failed = "superseded"]
        ELSE reader[u]]

\* A failure that leaves what the accounts before it reported in the cache.
QueryFailsKeepingPartial(t) ==
    /\ ret = NoRet
    /\ reader[t].pc = "refreshing"
    /\ reader[t].acct_i <= Len(accounts.d)
    /\ cache_lock' = 0
    /\ cached_usage' = [none |-> FALSE,
                        circuit_usage |-> reader[t].circuit_usage,
                        fetch_time |-> clock]
    /\ reported' = reader[t].responses
    /\ reader' = AfterRefresh(t, NoCache)
    /\ ret' = [NoRet EXCEPT !.reader = t, !.how = "raised"]
    /\ UNCHANGED <<clock, builtVars>>

\* A failure that leaves the lock held: an acquire() whose release() the
\* exception skips.
QueryFailsHoldingLock(t) ==
    /\ ret = NoRet
    /\ reader[t].pc = "refreshing"
    /\ reader[t].acct_i <= Len(accounts.d)
    /\ reader' = AfterRefresh(t, NoCache)
    /\ ret' = [NoRet EXCEPT !.reader = t, !.how = "raised"]
    /\ UNCHANGED <<cached_usage, cache_lock, clock, reported, builtVars>>

\* get_device_list_usage raises: the exception leaves the with block, which
\* releases the lock, and the value provider.
QueryFails(t) ==
    /\ ret = NoRet
    /\ reader[t].pc = "refreshing"
    /\ reader[t].acct_i <= Len(accounts.d)
    /\ cache_lock' = 0
    /\ reader' = AfterRefresh(t, NoCache)
    /\ ret' = [NoRet EXCEPT !.reader = t, !.how = "raised"]
    /\ UNCHANGED <<cached_usage, clock, reported, builtVars>>

\* CachedUsage(circuit_usage=circuit_usage, fetch_time=datetime.utcnow())
NewCachedUsage(t) ==
    [none |-> FALSE, circuit_usage |-> reader[t].circuit_usage,
     fetch_time |-> clock]

\* After the last account the snapshot is stored and returned.
StoreUsage(t) ==
    /\ ret = NoRet
    /\ reader[t].pc = "refreshing"
    /\ reader[t].acct_i > Len(accounts.d)
    /\ cached_usage' = NewCachedUsage(t)
    /\ reported' = reader[t].responses
    /\ cache_lock' = 0
    /\ \E g \in Gauges :
          ret' = [reader |-> t, how |-> "stored",
                  usage |-> reader[t].circuit_usage, gauge |-> g,
                  result |-> GaugeValue(g, reader[t].circuit_usage)]
    /\ reader' = AfterRefresh(t, NewCachedUsage(t))
    /\ UNCHANGED <<clock, builtVars>>

\* The caller of the value provider has its value or its exception.
Deliver ==
    /\ ret # NoRet
    /\ ret' = NoRet
    /\ UNCHANGED <<cached_usage, cache_lock, clock, reader, reported,
                   builtVars>>

\* A second passes.
Tick ==
    /\ ret = NoRet
    /\ clock < MaxClock
    /\ clock' = clock + 1
    /\ UNCHANGED <<cached_usage, cache_lock, reader, ret, reported, builtVars>>

Next ==
    \/ \E t \in Readers : CallGauge(t)
    \/ \E t \in Readers : CacheHit(t)
    \/ \E t \in Readers : CacheMiss(t)
    \/ \E t \in Readers : QueryUsage(t)
    \/ \E t \in Readers : QueryFails(t)
    \/ \E t \in Readers : StoreUsage(t)
    \/ Deliver
    \/ Tick

Spec == Init /\ [][Next]_vars

\* What the threads of the HTTP server are sure to do: a refresh ends, its
\* queries returning until the snapshot is stored or one of them raising
\* (a refresh makes one query for each account, so it cannot go on for
\* ever by queries that return); a value provider that returns is left;
\* and a thread waiting for a lock that is free again and again gets it.
Fairness ==
    /\ \A t \in Readers : WF_vars(QueryFails(t) \/ StoreUsage(t))
    /\ \A t \in Readers : SF_vars(CacheHit(t) \/ CacheMiss(t))
    /\ WF_vars(Deliver)

SpecLive == Init /\ [][Next]_vars /\ Fairness

----
\* The claims about the loader and the resolver, under SpecResolve.

RECURSIVE SectionNames(_)
RECURSIVE DictNames(_)

\* The names a section declares, at any depth, in document order.
SectionNames(section) ==
    IF section.kind = "list" THEN section.names
    ELSE IF section.kind = "dict" THEN DictNames(section.items)
    ELSE <<>>

DictNames(items) ==
    IF items = <<>> THEN <<>>
    ELSE <<Head(items)[1]>> \o SectionNames(Head(items)[2].circuits)
         \o SectionNames(Head(items)[2].outlets) \o DictNames(Tail(items))

\* The names of all the locations and circuits of the document.
DeclaredNames == DictNames(config_dict.locations)

Occurrences(s, x) == Cardinality({i \in 1..Len(s) : s[i] = x})

HasDuplicate(s) == \E x \in Range(s) : Occurrences(s, x) > 1

\* C4: a configuration in which two nodes share a name, whatever the form
\* of the sections they are declared in, fails in Config's construction,
\* before any resolution begins.
C4_DuplicateNameFailsLoad ==
    (pc # "main" /\ HasDuplicate(DeclaredNames))
        => (config.raised /\ pc = "config_failed" /\ calls = 0)

\* The locations and the parent Circuits that hold Circuit id.
HeldByLocation(id) ==
    {i \in 1..Len(locations.d) :
        \E j \in 1..Len(locations.d[i][2].circuits) :
            locations.d[i][2].circuits[j][2] = id}

HeldByCircuit(id) ==
    {h \in 1..Len(heap) :
        \E j \in 1..Len(heap[h].child_circuits) :
            heap[h].child_circuits[j][2] = id}

\* The places of Circuit id in the Location/Circuit structure.
Places(id) == Cardinality(HeldByLocation(id)) + Cardinality(HeldByCircuit(id))

\* C5: after do_logins_and_build_circuits completes, every discovered
\* channel is in exactly one place of the Location/Circuit structure, under
\* its parent or at the top level of a location.
C5_EveryChannelInOnePlace ==
    last_call = "completed"
        => \A k \in 1..Len(discovered) : Places(discovered[k]) = 1

\* C6: after login() fails for an account, the Emporia object holds no
\* account registry, no locations and no indices that a later call or a
\* reader takes for a completed resolution.
C6_FailedLoginPublishesNothing ==
    last_call = "raised"
        => /\ ~(~accounts.none /\ accounts.d # <<>>)
           /\ ~(~locations.none /\ locations.d # <<>>)
           /\ circuits_by_name = <<>>
           /\ circuits_by_device = <<>>

\* C9: a call of do_logins_and_build_circuits made when the account
\* registry is populated logs in to no account, reports no device and
\* leaves accounts, locations, both indices and every Circuit as they were.
C9_SecondCallChangesNothing ==
    [][(calls' = calls + 1 /\ ~accounts.none /\ accounts.d # <<>>)
          => /\ logins' = logins
             /\ discovered' = discovered
             /\ UNCHANGED emporiaVars
             /\ pc' = "ready"
             /\ last_call' = "returned"]_vars

\* A second call that returned at the guard, after a first that built a
\* tree with a nested circuit.
C9_Witness ==
    /\ last_call = "returned"
    /\ calls = 2
    /\ logins > 0
    /\ \E h \in 1..Len(heap) : heap[h].parent_circuit # NoCircuit

\* C10: when the config walk looks up the name of a discovered circuit at
\* more than one position, the resolution raises an error; it does not
\* complete.
C10_DoubleMatchFailsLoudly ==
    last_call = "completed"
        => \A k \in 1..Len(discovered) :
              Occurrences(lookups, heap[discovered[k]].name) <= 1

----
\* The claims about the usage cache and the gauges, under Spec.

\* Thread t takes the lock in this step.
Acquires(t) == reader[t].pc = "waiting" /\ reader'[t].pc # "waiting"

\* C1: a read that takes the lock while the snapshot is less than 15
\* seconds old returns the snapshot as it is and starts no refresh; a read
\* that takes it when there is no snapshot, or one of 15 seconds or more,
\* starts a refresh; and the snapshot changes only to exactly what a
\* refresh that queried every account fetched, stamped with the time.
C1_FreshReadsShareOneRefresh ==
    [][/\ \A t \in Readers :
             Acquires(t) =>
                IF ~cached_usage.none
                   /\ clock - cached_usage.fetch_time < CacheTtl
                THEN /\ reader'[t].pc = "idle"
                     /\ cache_lock' = 0
                     /\ ret'.reader = t
                     /\ ret'.how = "hit"
                     /\ ret'.usage = cached_usage.circuit_usage
                     /\ cached_usage' = cached_usage
                ELSE /\ reader'[t].pc = "refreshing"
                     /\ cache_lock' = t
                     /\ cached_usage' = cached_usage
       /\ cached_usage' # cached_usage =>
             \E t \in Readers :
                /\ reader[t].pc = "refreshing"
                /\ reader[t].acct_i > Len(accounts.d)
                /\ cached_usage' =
                      [none |-> FALSE,
                       circuit_usage |-> reader[t].circuit_usage,
                       fetch_time |-> clock]
                /\ ret'.how = "stored"
                /\ ret'.usage = reader[t].circuit_usage]_vars

\* A read is returning the snapshot in the last second of its window.
C1_Witness ==
    /\ ret.how = "hit"
    /\ ~cached_usage.none
    /\ cached_usage.fetch_time > 0
    /\ clock - cached_usage.fetch_time = CacheTtl - 1
    /\ ret.usage = cached_usage.circuit_usage

\* The refreshes in flight.
Refreshing == {t \in Readers : reader[t].pc = "refreshing"}

\* Thread t takes the lock and returns the snapshot of the refresh it came
\* to the lock behind, starting no refresh.
SharesAwaited(t) ==
    /\ reader'[t].pc = "idle"
    /\ ret'.reader = t
    /\ ret'.how = "hit"
    /\ ret'.usage = reader[t].awaited.circuit_usage
    /\ cached_usage' = cached_usage

\* C2 as stated: at most one refresh is in flight, and every caller that
\* came to the lock while a refresh that stored its snapshot was running
\* returns that snapshot and starts no refresh.
C2_WaitersAlwaysShare ==
    /\ [](Cardinality(Refreshing) <= 1)
    /\ [][\A t \in Readers :
             (Acquires(t) /\ ~reader[t].awaited.none) => SharesAwaited(t)]_vars

\* C2 amended: at most one refresh is in flight, and every caller that came
\* to the lock while a refresh that stored its snapshot was running, and
\* takes the lock less than 15 seconds after that snapshot's fetch time,
\* returns that snapshot and starts no refresh.
C2_OneRefreshAndPromptWaitersShare ==
    /\ [](Cardinality(Refreshing) <= 1)
    /\ [][\A t \in Readers :
             (/\ Acquires(t)
              /\ ~reader[t].awaited.none
              /\ clock - reader[t].awaited.fetch_time < CacheTtl)
                => SharesAwaited(t)]_vars

\* A caller that came to the lock during a refresh is returning the
\* snapshot that refresh stored.
C2_Witness ==
    \E t \in Readers :
       /\ ret.reader = t
       /\ ret.how = "hit"
       /\ ~reader[t].awaited.none
       /\ ret.usage = reader[t].awaited.circuit_usage
       /\ reader[t].awaited = cached_usage

\* C3: a refresh that ends before every account has answered, the query
\* of any account having raised, leaves cached_usage as it was, and the
\* read that started the refresh raises.
C3_FailedRefreshLeavesCache ==
    [][\A t \in Readers :
          (/\ reader[t].pc = "refreshing"
           /\ reader'[t].pc # "refreshing"
           /\ reader[t].acct_i <= Len(accounts.d))
             => /\ cached_usage' = cached_usage
                /\ ret'.reader = t
                /\ ret'.how = "raised"
                /\ cache_lock' = 0]_vars

\* A read raises out of its refresh, and the snapshot of an earlier
\* refresh, now stale, is still the cached one.
C3_Witness ==
    /\ ret.how = "raised"
    /\ ~cached_usage.none
    /\ cached_usage.circuit_usage # <<>>
    /\ clock - cached_usage.fetch_time >= CacheTtl

\* The names of the circuits the cache knows.
KnownNames == {heap[id].name : id \in Range(Values(circuits_by_name))}

\* C7 as stated: a stored snapshot holds a value for every circuit of
\* circuits_by_name, and no read of a circuit's gauge against a snapshot
\* finds its circuit missing.
C7_SnapshotHoldsEveryCircuit ==
    /\ ~cached_usage.none =>
          \A name \in KnownNames : Has(cached_usage.circuit_usage, name)
    /\ (ret.how \in {"hit", "stored"} /\ ret.gauge.fn = "get_usage")
          => ret.result.ok

\* What the answers to the refresh that stored the snapshot reported for
\* the channel of Circuit id.
ReportedUsages(id) ==
    UNION {{reported[i][2][j].usage :
               j \in {k \in DOMAIN reported[i][2] :
                         reported[i][2][k].channel_num = heap[id].channel_num}} :
              i \in {n \in DOMAIN reported :
                        reported[n][1] = heap[id].device_gid}}

\* C7 amended: a stored snapshot holds values for circuits of
\* circuits_by_name only, and holds one for exactly those whose channel an
\* answer of the refresh reported: zero for a channel that reported no
\* usage, and else its usage times 3600 times 1000.
C7_SnapshotHoldsWhatWasReported ==
    ~cached_usage.none =>
       /\ Keys(cached_usage.circuit_usage) \subseteq KnownNames
       /\ \A id \in Range(Values(circuits_by_name)) :
             IF ReportedUsages(id) = {}
             THEN ~Has(cached_usage.circuit_usage, heap[id].name)
             ELSE /\ Has(cached_usage.circuit_usage, heap[id].name)
                  /\ Get(cached_usage.circuit_usage, heap[id].name)
                        \in {IF u = NoUsage THEN 0 ELSE u * 3600 * 1000 :
                                u \in ReportedUsages(id)}

\* A stored snapshot with a plug that is off at zero, a channel the answer
\* left out missing, and a channel in use.
C7_Witness ==
    /\ ~cached_usage.none
    /\ Has(cached_usage.circuit_usage, "plug")
    /\ Get(cached_usage.circuit_usage, "plug") = 0
    /\ ~Has(cached_usage.circuit_usage, "leaf")
    /\ Has(cached_usage.circuit_usage, "main")
    /\ Get(cached_usage.circuit_usage, "main") = 36000000

\* The direct children of Circuit id.
ChildrenOf(id) == Range(Values(heap[id].child_circuits))

RECURSIVE SumOfUsage(_, _)
\* The sum of the usages of the Circuits ids.
SumOfUsage(usage, ids) ==
    IF ids = {} THEN 0
    ELSE LET id == CHOOSE x \in ids : TRUE
         IN  Get(usage, heap[id].name) + SumOfUsage(usage, ids \ {id})

\* C8: a remainder provider is registered for exactly the circuits that
\* have children; it returns, from the one snapshot its cache read gave,
\* the circuit's usage less the sum of the usages of its direct children
\* (and raises when one of these is missing); and that snapshot is what
\* the cache holds, unless the cache holds an older one that was fresh.
C8_RemainderIsParentLessChildren ==
    /\ \A id \in Range(Values(circuits_by_name)) :
          ([fn |-> "get_remainder", circuit |-> id] \in Gauges)
             <=> ChildrenOf(id) # {}
    /\ ret.gauge.fn = "get_remainder" =>
          /\ ChildrenOf(ret.gauge.circuit) # {}
          /\ ret.result.ok <=>
                \A c \in {ret.gauge.circuit} \cup ChildrenOf(ret.gauge.circuit) :
                   Has(ret.usage, heap[c].name)
          /\ ret.result.ok =>
                ret.result.value =
                   Get(ret.usage, heap[ret.gauge.circuit].name)
                      - SumOfUsage(ret.usage, ChildrenOf(ret.gauge.circuit))
          /\ cached_usage.circuit_usage = ret.usage

\* The remainder of main, with 10 on main, 3 on sub, 2 on plug and 1 on
\* leaf, which is below sub: 5, times 3600 times 1000.
C8_Witness ==
    /\ ret.gauge.fn = "get_remainder"
    /\ heap[ret.gauge.circuit].name = "main"
    /\ Has(ret.usage, "leaf")
    /\ Get(ret.usage, "leaf") = 3600000
    /\ Get(ret.usage, "main") = 36000000
    /\ ret.result = [ok |-> TRUE, value |-> 18000000]

----
\* The claim about the release of the lock, under SpecLive.

\* The lock is held by a thread that is refreshing, and by no other.
HeldForOneRead ==
    cache_lock # 0 => reader[cache_lock].pc = "refreshing"

\* C11 as stated: the lock is held only during a read and every read
\* whose query returns or raises releases it (the lock is free again and
\* again); every reader waiting for it gets it (no reader waits from some
\* time on); and a reader that waited behind a refresh that raised starts a
\* refresh of its own when it gets it.
C11_WaitersRefreshAfterFailure ==
    /\ []HeldForOneRead
    /\ []<>(cache_lock = 0)
    /\ \A t \in Readers : []<>(reader[t].pc # "waiting")
    /\ [][\A t \in Readers :
             (Acquires(t) /\ reader[t].failed # "no")
                => reader'[t].pc = "refreshing"]_vars

\* C11 amended: the lock is held only during a read and every read whose
\* query returns or raises releases it (the lock is free again and again);
\* every reader waiting for it gets it (no reader waits from some time
\* on); and a reader that waited behind a refresh that raised starts a
\* refresh of its own when it gets it, unless another refresh has stored a
\* snapshot in the meantime.
C11_LockReleasedAndWaitersProceed ==
    /\ []HeldForOneRead
    /\ []<>(cache_lock = 0)
    /\ \A t \in Readers : []<>(reader[t].pc # "waiting")
    /\ [][\A t \in Readers :
             (Acquires(t) /\ reader[t].failed = "raised")
                => reader'[t].pc = "refreshing"]_vars

\* A refresh has raised and released the lock, and a reader that came to
\* the lock during that refresh is waiting for it.
C11_Witness ==
    /\ ret.how = "raised"
    /\ cache_lock = 0
    /\ \E u \in Readers :
          /\ u # ret.reader
          /\ reader[u].pc = "waiting"
          /\ reader[u].failed = "raised"

====
